---- MODULE Spec2Model ----
\* A model of autogen/logger/cosmos_logger.py: the CosmosLogger telemetry sink,
\* its module-global session identifier, the four Cosmos DB containers it
\* writes to and the six operations start, log_chat_completion, log_new_agent,
\* log_new_wrapper, log_new_client and stop.
EXTENDS Integers, Sequences, FiniteSets, TLC

\* ------------------------------------------------------------------ bounds
\* uuid4() results are modelled as 1, 2, ...; start() is disabled after this many.
MaxSessions == 2
\* number of documents the chat container may hold before log calls stop writing
MaxChatItems == 1

\* ------------------------------------------------------------- the universe
Loggers == {"L1", "L2"}          \* CosmosLogger instances living in one process
Threads == {"worker"}             \* threads issuing log_* calls beside the control thread
None == "None"                   \* Python's None, for the container attributes
NoSession == 0                   \* this._session_id = None

\* ------------------------------------------------------------ Python values
\* A value is null, a str, a dict (ordered key/value pairs), an object with
\* attributes (vars(obj), ordered) or an agent-like object.
PyNone == [t |-> "null", s |-> "", items |-> <<>>]
PyStr(s) == [t |-> "str", s |-> s, items |-> <<>>]
PyDict(items) == [t |-> "dict", s |-> "", items |-> items]
PyObj(items) == [t |-> "obj", s |-> "", items |-> items]
PyAgent(name) == [t |-> "agent", s |-> name, items |-> <<>>]

\* The exclude tuple passed to to_dict by the three log_new_* methods.
\* (ExcludeNoCredentials is the tuple with api_key forgotten, used as a seeded fault.)
ExcludeNoCredentials == {"self", "__class__", "organization", "base_url", "azure_endpoint"}
Exclude == {"self", "__class__", "api_key", "organization", "base_url", "azure_endpoint"}

\* logger_utils.to_dict: plain values pass through; a dict or an object becomes
\* a dict of its entries without the excluded keys, converted recursively; a
\* value of a no_recursive kind is flattened to its string form.
RECURSIVE to_dict(_, _, _)
RECURSIVE to_dict_items(_, _, _, _)
to_dict_items(items, i, exclude, no_recursive) ==
    IF i > Len(items) THEN <<>>
    ELSE LET k == items[i][1]
             v == items[i][2]
             rest == to_dict_items(items, i + 1, exclude, no_recursive)
         IN IF k \in exclude THEN rest
            ELSE <<
                   <<k, to_dict(IF v.t \in no_recursive THEN PyStr(v.s) ELSE v,
                                exclude, no_recursive)>>
                 >> \o rest
to_dict(obj, exclude, no_recursive) ==
    IF obj.t \in {"dict", "obj"}
    THEN PyDict(to_dict_items(obj.items, 1, exclude, no_recursive))
    ELSE obj

\* json.dumps, as the sequence of tokens of the text it produces.  indent is
\* TRUE for indent=4: every entry then starts on a new line, indented by four
\* spaces per nesting level.
RECURSIVE Spaces(_)
Spaces(depth) == IF depth = 0 THEN <<>> ELSE <<"    ">> \o Spaces(depth - 1)
NewLine(indent, depth) == IF indent THEN <<"\n">> \o Spaces(depth) ELSE <<>>
RECURSIVE dumps(_, _, _)
RECURSIVE dumps_items(_, _, _, _)
dumps_items(items, i, indent, depth) ==
    IF i > Len(items) THEN <<>>
    ELSE NewLine(indent, depth)
         \o <<"\"", items[i][1], "\"", ":">>
         \o dumps(items[i][2], indent, depth)
         \o (IF i < Len(items) THEN <<",">> ELSE <<>>)
         \o dumps_items(items, i + 1, indent, depth)
dumps(v, indent, depth) ==
    CASE v.t = "null" -> <<"null">>
      [] v.t = "str" -> <<"\"", v.s, "\"">>
      [] v.t = "dict" ->
           IF v.items = <<>> THEN <<"{", "}">>
           ELSE <<"{">> \o dumps_items(v.items, 1, indent, depth + 1)
                \o NewLine(indent, depth) \o <<"}">>
      [] OTHER -> <<"TypeError">>     \* not JSON serializable

\* The keys of a JSON text, in order: the strings that a colon follows.
KeysOfText(text) ==
    LET IsKey(i) == /\ i + 2 <= Len(text)
                    /\ i > 1
                    /\ text[i - 1] = "\""
                    /\ text[i + 1] = "\""
                    /\ text[i + 2] = ":"
        RECURSIVE From(_)
        From(i) == IF i > Len(text) THEN <<>>
                   ELSE (IF IsKey(i) THEN <<text[i]>> ELSE <<>>) \o From(i + 1)
    IN From(1)

\* ------------------------------------------------------------------ inputs
\* The response argument of log_chat_completion: None, a plain string, or a
\* ChatCompletion-like object with a nested object among its attributes.
ChatCompletion ==
    PyObj(<< <<"id", PyStr("chatcmpl-1")>>,
             <<"choices", PyObj(<< <<"finish_reason", PyStr("stop")>> >>)>> >>)
Responses == {PyNone, PyStr("plain text"), ChatCompletion}
\* The request argument of log_chat_completion.
Request == PyDict(<< <<"model", PyStr("gpt")>> >>)
\* init_args mappings handed to the log_new_* methods.  Together they carry
\* every excluded key, a key that is kept, a nested mapping with a credential
\* and a nested agent.
InitArgs ==
    { PyDict(<< <<"self", PyStr("obj")>>, <<"api_key", PyStr("sk-1")>>,
                <<"model", PyStr("self")>> >>),
      PyDict(<< <<"__class__", PyStr("cls")>>, <<"organization", PyStr("org")>>,
                <<"base_url", PyStr("url")>>, <<"azure_endpoint", PyStr("ep")>>,
                <<"llm_config", PyDict(<< <<"api_key", PyStr("sk-2")>>,
                                          <<"seed", PyStr("42")>> >>)>>,
                <<"manager", PyAgent("boss")>> >>) }
\* id(agent), id(wrapper), id(client): one object of each kind is logged, so
\* that repeated calls are calls with the same identifier.
AgentIds == {"agent#1"}
WrapperIds == {"wrapper#1"}
ClientIds == {"client#1"}
InvocationIds == {"inv#1"}
\* Faults the database service may answer a write with.
Faults == {"none", "CosmosHttpResponseError"}

\* ------------------------------------------------------------------- state
VARIABLES
    instances,          \* the CosmosLogger objects that exist in the process
    session_id,         \* this._session_id, a module global
    chat_container,     \* self.chat_container of each logger
    agent_container,    \* self.agent_container
    wrapper_container,  \* self.wrapper_container
    client_container,   \* self.client_container
    chat_items,         \* the documents of the chat_completions container
    agent_items,        \* the documents of the agents container
    wrapper_items,      \* the documents of the oai_wrappers container
    client_items,       \* the documents of the oai_clients container
    lifecycle,          \* history: what the last start() or stop() of each logger did
    returned,           \* history: the session id each logger's last returning start() gave
    last,               \* history: the observable result of the last finished call
    thr                 \* the worker threads' positions inside a log_* call

handles == <<chat_container, agent_container, wrapper_container, client_container>>
database == <<chat_items, agent_items, wrapper_items, client_items>>
vars == <<instances, session_id, handles, database, lifecycle, returned, last, thr>>

\* last: op and logger name the call and outcome is "returned" or the exception
\* it raised to its caller.  fault is the failure the environment injected into
\* the call.  For start: ret is the session id returned and prov the number of
\* provisioning calls made.  For a log_* call that passed its guard: input is
\* its argument, writes counts the database writes attempted,
\* raised is what the write raised, existed tells whether a document with the
\* same key was stored before, changed whether the database differs after the
\* call, and stamped is the session id that went into the document.
NoCall == [op |-> "none", logger |-> "none", outcome |-> "none", fault |-> "none",
           ret |-> NoSession, prov |-> 0, writes |-> 0, raised |-> "none",
           existed |-> FALSE, changed |-> FALSE, stamped |-> NoSession,
           input |-> PyNone]
\* thr: pc is the position ("idle", "item", "write", "done"); op, logger, id,
\* wrapper and input are the call and its arguments; guard is the container
\* attribute the guard read, stamped the session id read for the item, seen the
\* container attribute the write read; outcome and wrote are the call's result.
Idle == [pc |-> "idle", op |-> "none", logger |-> "none", id |-> "none",
         wrapper |-> "none", input |-> PyNone, outcome |-> "none",
         guard |-> None, seen |-> None, stamped |-> NoSession, wrote |-> FALSE]

\* __init__: the four container attributes start as None; the module global
\* session id starts as None.
InitState ==
    /\ session_id = NoSession
    /\ chat_container = [l \in Loggers |-> None]
    /\ agent_container = [l \in Loggers |-> None]
    /\ wrapper_container = [l \in Loggers |-> None]
    /\ client_container = [l \in Loggers |-> None]
    /\ chat_items = <<>>
    /\ agent_items = {}
    /\ wrapper_items = {}
    /\ client_items = {}
    /\ lifecycle = [l \in Loggers |-> "new"]
    /\ returned = [l \in Loggers |-> NoSession]
    /\ last = NoCall
    /\ thr = [t \in Threads |-> Idle]
Init == instances = {"L1"} /\ InitState
InitInstances == instances = Loggers /\ InitState

\* ---------------------------------------------------------------- start()
\* The provisioning calls of start, in the order the code makes them.
ProvisionSteps == <<"database", "chat", "agent", "wrapper", "client">>
ProvisionFaults == {ProvisionSteps[i] : i \in DOMAIN ProvisionSteps}
StepIndex(step) == CHOOSE i \in DOMAIN ProvisionSteps : ProvisionSteps[i] = step
StartFaults == {"none", "connection"} \cup ProvisionFaults
\* The default container names of start.
ChatContainerName == "chat_completions"
AgentContainerName == "agents"
WrapperContainerName == "oai_wrappers"
ClientContainerName == "oai_clients"

\* try: client = CosmosClient(...) except: raise ConnectionError
\* (connect_swallowed: the handler logs and goes on, a seeded fault.)
connect_swallowed(fault) == FALSE
connect_raises(fault) == fault = "connection"
\* A provisioning call completes when no call at or before it raised; the
\* first raise leaves the try block, so the later calls are not made.
Completed(step, fault) ==
    \/ fault \in {"none", "connection"}
    \/ StepIndex(step) < StepIndex(fault)
Attempted(fault) ==
    IF fault \in {"none", "connection"} THEN Len(ProvisionSteps) ELSE StepIndex(fault)
\* self.x_container = database.create_container_if_not_exists(...): assigned
\* only when the call completed, otherwise the attribute keeps its value.
Acquire(old, name, step, fault) == IF Completed(step, fault) THEN name ELSE old

start(l, fault) ==
    /\ session_id < MaxSessions
    /\ session_id' = session_id + 1              \* this._session_id = str(uuid.uuid4())
    /\ UNCHANGED <<instances, database, thr>>
    /\ IF connect_raises(fault)
       THEN /\ UNCHANGED <<handles, returned>>
            /\ lifecycle' = [lifecycle EXCEPT ![l] = "raised"]
            /\ last' = [NoCall EXCEPT !.op = "start", !.logger = l, !.fault = fault,
                                      !.outcome = "ConnectionError"]
       ELSE /\ chat_container' = [chat_container EXCEPT
                   ![l] = Acquire(@, ChatContainerName, "chat", fault)]
            /\ agent_container' = [agent_container EXCEPT
                   ![l] = Acquire(@, AgentContainerName, "agent", fault)]
            /\ wrapper_container' = [wrapper_container EXCEPT
                   ![l] = Acquire(@, WrapperContainerName, "wrapper", fault)]
            /\ client_container' = [client_container EXCEPT
                   ![l] = Acquire(@, ClientContainerName, "client", fault)]
            \* finally: return this._session_id
            /\ returned' = [returned EXCEPT ![l] = session_id']
            /\ lifecycle' = [lifecycle EXCEPT
                   ![l] = IF fault \in ProvisionFaults THEN "degraded" ELSE "started"]
            /\ last' = [NoCall EXCEPT !.op = "start", !.logger = l, !.fault = fault,
                                      !.outcome = "returned", !.ret = session_id',
                                      !.prov = Attempted(fault)]

\* ----------------------------------------------------------------- stop()
\* if self.x_container: self.x_container = None
\* (ReleasedNever: the attribute is left as it is, a seeded fault.)
ReleasedNever(h) == h
Released(h) == IF h # None THEN None ELSE h

stop(l) ==
    /\ chat_container' = [chat_container EXCEPT ![l] = Released(@)]
    /\ agent_container' = [agent_container EXCEPT ![l] = Released(@)]
    /\ wrapper_container' = [wrapper_container EXCEPT ![l] = Released(@)]
    /\ client_container' = [client_container EXCEPT ![l] = Released(@)]
    /\ lifecycle' = [lifecycle EXCEPT ![l] = "stopped"]
    /\ last' = [NoCall EXCEPT !.op = "stop", !.logger = l, !.outcome = "returned"]
    /\ UNCHANGED <<instances, session_id, database, returned, thr>>

\* --------------------------------------------------- the database service
\* container.create_item: the service may answer with an error; a document
\* whose partition key value is already stored is a conflict; otherwise the
\* document is stored.  raised is the exception the call raises, or "none".
create_item(items, key, doc, fault) ==
    IF fault # "none" THEN [raised |-> fault, items |-> items]
    ELSE IF \E d \in items : d[key] = doc[key]
    THEN [raised |-> "CosmosResourceExistsError", items |-> items]
    ELSE [raised |-> "none", items |-> items \cup {doc}]
\* container.upsert_item: replaces the stored document with the same key.
upsert_item(items, key, doc, fault) ==
    IF fault # "none" THEN [raised |-> fault, items |-> items]
    ELSE [raised |-> "none",
          items |-> {d \in items : d[key] # doc[key]} \cup {doc}]
\* chat_container.create_item: no uniqueness is enforced on invocation ids.
append_item(items, doc, fault) ==
    IF fault # "none" THEN [raised |-> fault, items |-> items]
    ELSE [raised |-> "none", items |-> Append(items, doc)]
\* azure.cosmos.exceptions: CosmosResourceExistsError is a
\* CosmosHttpResponseError.
IsInstance(exc, class) ==
    \/ exc = class
    \/ exc = "CosmosResourceExistsError" /\ class = "CosmosHttpResponseError"

\* ------------------------------------------------------ the log_* methods
LogOps == {"log_chat_completion", "log_new_agent", "log_new_wrapper", "log_new_client"}
\* if self.x_container is None: return
handle_absent(h) == h = None
\* The names bound where log_new_agent builds its item and handles its
\* exception: its parameters, its local names and the module's globals.
BoundNames == {"self", "agent", "init_args", "Agent", "args", "item",
               "json", "logging", "os", "exceptions", "CosmosClient", "PartitionKey",
               "sys", "uuid", "BaseLogger", "get_current_ts", "to_dict", "OpenAI",
               "AzureOpenAI", "ChatCompletion", "Dict", "TYPE_CHECKING", "Union",
               "this", "logger", "CosmosLogger"}

\* if response is None or isinstance(response, str)
\* (is_plain_only_none: the isinstance test dropped, a seeded fault.)
is_plain_only_none(response) == response.t = "null"
is_plain(response) == response.t \in {"null", "str"}
response_messages(response) ==
    IF is_plain(response)
    THEN dumps(PyDict(<< <<"response", response>> >>), FALSE, 0)
    ELSE dumps(to_dict(response, {}, {}), TRUE, 0)
\* The item of log_chat_completion.  client_id, wrapper_id, is_cached, cost and
\* start_time are copied from the arguments and end_time from the clock; they
\* are left out of the document here.
chat_item(invocation_id, response, session) ==
    [invocation_id |-> invocation_id,
     session_id |-> session,
     request |-> dumps(Request, FALSE, 0),
     response |-> response_messages(response)]
chat_except == "CosmosHttpResponseError"

\* The exclude tuples of the three to_dict calls.
agent_exclude == Exclude
wrapper_exclude_no_credentials == ExcludeNoCredentials
wrapper_exclude == Exclude
client_exclude == Exclude
\* no_recursive=(Agent)
agent_no_recursive == {"agent"}

\* The item of log_new_agent: the dict display reads the name is_cached.  Of the
\* item the key, the session id and the serialized init_args are kept here;
\* wrapper_id, name, class and timestamp are read from the agent and the clock.
agent_item_raises == IF "is_cached" \in BoundNames THEN "none" ELSE "NameError"
agent_item(agent_id, init_args, session) ==
    [agent_id |-> agent_id,
     session_id |-> session,
     init_args |-> dumps(to_dict(init_args, agent_exclude, agent_no_recursive), FALSE, 0)]
agent_except == "CosmosResourceExistsError"
\* logger.error(f"... {e}") in a handler that binds no name e
agent_handler_raises == IF "e" \in BoundNames THEN "none" ELSE "NameError"

\* The items of log_new_wrapper and log_new_client, without their timestamp.
wrapper_item(wrapper_id, init_args, session) ==
    [wrapper_id |-> wrapper_id,
     session_id |-> session,
     init_args |-> dumps(to_dict(init_args, wrapper_exclude, {}), FALSE, 0)]
\* (wrapper_except_none: an except clause that matches nothing, a seeded fault.)
wrapper_except_none == "NoSuchError"
wrapper_except == "CosmosHttpResponseError"

client_item(client_id, wrapper_id, init_args, session) ==
    [client_id |-> client_id,
     wrapper_id |-> wrapper_id,
     session_id |-> session,
     class |-> "OpenAI",
     init_args |-> dumps(to_dict(init_args, client_exclude, {}), FALSE, 0)]
client_except == "CosmosHttpResponseError"

\* What a call ends with once its write raised `raised`: the except clause of
\* class `class` catches it or lets it through, and the handler itself may raise.
Outcome(raised, class, handler_raises) ==
    IF raised = "none" THEN "returned"
    ELSE IF IsInstance(raised, class)
    THEN (IF handler_raises = "none" THEN "returned" ELSE handler_raises)
    ELSE raised

Call(op, l) == [NoCall EXCEPT !.op = op, !.logger = l, !.outcome = "returned"]

log_chat_completion(l, invocation_id, response, fault) ==
    /\ UNCHANGED <<instances, session_id, handles, lifecycle, returned, thr>>
    /\ UNCHANGED <<agent_items, wrapper_items, client_items>>
    /\ IF handle_absent(chat_container[l])
       THEN /\ UNCHANGED chat_items
            /\ last' = Call("log_chat_completion", l)
       ELSE LET item == chat_item(invocation_id, response, session_id)
                w == append_item(chat_items, item, fault)
            IN /\ Len(w.items) <= MaxChatItems
               /\ chat_items' = w.items
               /\ last' = [Call("log_chat_completion", l) EXCEPT
                              !.input = response,
                              !.fault = fault,
                              !.writes = 1, !.stamped = session_id, !.raised = w.raised,
                              !.changed = (w.items # chat_items),
                              !.outcome = Outcome(w.raised, chat_except, "none")]

log_new_agent(l, agent_id, init_args, fault) ==
    /\ UNCHANGED <<instances, session_id, handles, lifecycle, returned, thr>>
    /\ UNCHANGED <<chat_items, wrapper_items, client_items>>
    /\ IF handle_absent(agent_container[l])
       THEN /\ UNCHANGED agent_items
            /\ last' = Call("log_new_agent", l)
       ELSE IF agent_item_raises # "none"
       THEN /\ UNCHANGED agent_items
            /\ last' = [Call("log_new_agent", l) EXCEPT
                           !.input = init_args, !.fault = fault,
                           !.existed = (\E d \in agent_items : d.agent_id = agent_id),
                           !.outcome = agent_item_raises]
       ELSE LET item == agent_item(agent_id, init_args, session_id)
                w == upsert_item(agent_items, "agent_id", item, fault)
            IN /\ agent_items' = w.items
               /\ last' = [Call("log_new_agent", l) EXCEPT
                              !.input = init_args,
                              !.fault = fault,
                              !.writes = 1, !.stamped = session_id, !.raised = w.raised,
                              !.existed = (\E d \in agent_items : d.agent_id = agent_id),
                              !.changed = (w.items # agent_items),
                              !.outcome = Outcome(w.raised, agent_except,
                                                  agent_handler_raises)]

log_new_wrapper(l, wrapper_id, init_args, fault) ==
    /\ UNCHANGED <<instances, session_id, handles, lifecycle, returned, thr>>
    /\ UNCHANGED <<chat_items, agent_items, client_items>>
    /\ IF handle_absent(wrapper_container[l])
       THEN /\ UNCHANGED wrapper_items
            /\ last' = Call("log_new_wrapper", l)
       ELSE LET item == wrapper_item(wrapper_id, init_args, session_id)
                w == create_item(wrapper_items, "wrapper_id", item, fault)
            IN /\ wrapper_items' = w.items
               /\ last' = [Call("log_new_wrapper", l) EXCEPT
                              !.input = init_args,
                              !.fault = fault,
                              !.writes = 1, !.stamped = session_id, !.raised = w.raised,
                              !.existed = (\E d \in wrapper_items : d.wrapper_id = wrapper_id),
                              !.changed = (w.items # wrapper_items),
                              !.outcome = Outcome(w.raised, wrapper_except, "none")]

log_new_client(l, client_id, wrapper_id, init_args, fault) ==
    /\ UNCHANGED <<instances, session_id, handles, lifecycle, returned, thr>>
    /\ UNCHANGED <<chat_items, agent_items, wrapper_items>>
    /\ IF handle_absent(client_container[l])
       THEN /\ UNCHANGED client_items
            /\ last' = Call("log_new_client", l)
       ELSE LET item == client_item(client_id, wrapper_id, init_args, session_id)
                w == create_item(client_items, "client_id", item, fault)
            IN /\ client_items' = w.items
               /\ last' = [Call("log_new_client", l) EXCEPT
                              !.input = init_args,
                              !.fault = fault,
                              !.writes = 1, !.stamped = session_id, !.raised = w.raised,
                              !.existed = (\E d \in client_items : d.client_id = client_id),
                              !.changed = (w.items # client_items),
                              !.outcome = Outcome(w.raised, client_except, "none")]

\* ------------------------------------------------ the sequential program
\* One caller: every operation runs to completion before the next begins.
Next ==
    \/ \E l \in instances, fault \in StartFaults : start(l, fault)
    \/ \E l \in instances : stop(l)
    \/ \E l \in instances, i \in InvocationIds, r \in Responses, f \in Faults :
          log_chat_completion(l, i, r, f)
    \/ \E l \in instances, a \in AgentIds, args \in InitArgs, f \in Faults :
          log_new_agent(l, a, args, f)
    \/ \E l \in instances, w \in WrapperIds, args \in InitArgs, f \in Faults :
          log_new_wrapper(l, w, args, f)
    \/ \E l \in instances, c \in ClientIds, w \in WrapperIds, args \in InitArgs, f \in Faults :
          log_new_client(l, c, w, args, f)

Spec == Init /\ [][Next]_vars
\* The same program with every logger instance of the process in use.
SpecInstances == InitInstances /\ [][Next]_vars

\* --------------------------------------------------- the threaded program
\* start and stop run on a control thread, each taken as one step, while a
\* worker thread is inside a log_* call.  No lock is taken anywhere, so a call is three steps that other
\* threads may run between: the guard, the building of the item (which reads
\* this._session_id) and the write (which reads the container attribute again).
ContainerOf(op, l) ==
    CASE op = "log_chat_completion" -> chat_container[l]
      [] op = "log_new_agent" -> agent_container[l]
      [] op = "log_new_wrapper" -> wrapper_container[l]
      [] op = "log_new_client" -> client_container[l]
LogIds(op) ==
    CASE op = "log_chat_completion" -> InvocationIds
      [] op = "log_new_agent" -> AgentIds
      [] op = "log_new_wrapper" -> WrapperIds
      [] op = "log_new_client" -> ClientIds
LogInputs(op) == IF op = "log_chat_completion" THEN Responses ELSE InitArgs
ExceptOf(op) ==
    CASE op = "log_chat_completion" -> chat_except
      [] op = "log_new_agent" -> agent_except
      [] op = "log_new_wrapper" -> wrapper_except
      [] op = "log_new_client" -> client_except

\* self.x_container.create_item(...): the method is looked up on whatever the
\* attribute holds now; on None the lookup raises AttributeError.
\* (method_lookup_null_safe: a lookup that never fails, a seeded fault.)
method_lookup_null_safe(h) == "none"
method_lookup(h) == IF h = None THEN "AttributeError" ELSE "none"

\* The record of a finished call: its arguments are dropped, what it read and
\* how it ended is kept.
Finished(c, seen, outcome, wrote) ==
    [Idle EXCEPT !.pc = "done", !.op = c.op, !.logger = c.logger, !.guard = c.guard,
                 !.seen = seen, !.outcome = outcome, !.wrote = wrote]

log_guard(t, op, l, id, wrapper, input) ==
    /\ thr[t].pc \in {"idle", "done"}
    /\ LET call == [Idle EXCEPT !.op = op, !.logger = l, !.id = id,
                                !.wrapper = wrapper, !.input = input,
                                !.guard = ContainerOf(op, l)]
       IN thr' = [thr EXCEPT ![t] =
                    IF handle_absent(ContainerOf(op, l))
                    THEN Finished(call, None, "returned", FALSE)
                    ELSE [call EXCEPT !.pc = "item"]]
    /\ UNCHANGED <<instances, session_id, handles, database, lifecycle, returned, last>>

log_item(t) ==
    /\ thr[t].pc = "item"
    /\ thr' = [thr EXCEPT ![t] =
                 IF thr[t].op = "log_new_agent" /\ agent_item_raises # "none"
                 THEN Finished(@, None, agent_item_raises, FALSE)
                 ELSE [@ EXCEPT !.pc = "write", !.stamped = session_id]]
    /\ UNCHANGED <<instances, session_id, handles, database, lifecycle, returned, last>>

log_write(t, fault) ==
    LET c == thr[t]
        h == ContainerOf(c.op, c.logger)
        w == CASE c.op = "log_chat_completion" ->
                    append_item(chat_items, chat_item(c.id, c.input, c.stamped), fault)
               [] c.op = "log_new_agent" ->
                    upsert_item(agent_items, "agent_id",
                                agent_item(c.id, c.input, c.stamped), fault)
               [] c.op = "log_new_wrapper" ->
                    create_item(wrapper_items, "wrapper_id",
                                wrapper_item(c.id, c.input, c.stamped), fault)
               [] c.op = "log_new_client" ->
                    create_item(client_items, "client_id",
                                client_item(c.id, c.wrapper, c.input, c.stamped), fault)
    IN /\ c.pc = "write"
       /\ UNCHANGED <<instances, session_id, handles, lifecycle, returned, last>>
       /\ IF method_lookup(h) # "none"
          THEN /\ UNCHANGED database
               /\ thr' = [thr EXCEPT ![t] =
                            Finished(c, h, Outcome(method_lookup(h), ExceptOf(c.op), "none"),
                                     FALSE)]
          ELSE /\ c.op = "log_chat_completion" => Len(w.items) <= MaxChatItems
               /\ chat_items' = IF c.op = "log_chat_completion" THEN w.items ELSE chat_items
               /\ agent_items' = IF c.op = "log_new_agent" THEN w.items ELSE agent_items
               /\ wrapper_items' = IF c.op = "log_new_wrapper" THEN w.items ELSE wrapper_items
               /\ client_items' = IF c.op = "log_new_client" THEN w.items ELSE client_items
               /\ thr' = [thr EXCEPT ![t] =
                            Finished(c, h,
                                     Outcome(w.raised, ExceptOf(c.op),
                                             IF c.op = "log_new_agent"
                                             THEN agent_handler_raises ELSE "none"),
                                     w.raised = "none")]

NextThreads ==
    \/ \E l \in instances, fault \in StartFaults : start(l, fault)
    \/ \E l \in instances : stop(l)
    \/ \E t \in Threads, op \in LogOps, l \in instances :
          \E id \in LogIds(op), w \in WrapperIds, input \in LogInputs(op) :
             log_guard(t, op, l, id, w, input)
    \/ \E t \in Threads : log_item(t)
    \/ \E t \in Threads, f \in Faults : log_write(t, f)

SpecThreads == Init /\ [][NextThreads]_vars

\* ------------------------------------------------------------- properties
Stopped(l) == lifecycle[l] \in {"new", "stopped"}
Started(l) == lifecycle[l] = "started"
Degraded(l) == lifecycle[l] = "degraded"
HasKey(mapping, key) == \E i \in DOMAIN mapping.items : mapping.items[i][1] = key
\* The attribute names of a value, depth first.
RECURSIVE Names(_)
RECURSIVE NamesFrom(_, _)
NamesFrom(items, i) ==
    IF i > Len(items) THEN <<>>
    ELSE <<items[i][1]>> \o Names(items[i][2]) \o NamesFrom(items, i + 1)
Names(v) == IF v.t \in {"dict", "obj"} THEN NamesFrom(v.items, 1) ELSE <<>>
StoredInitArgs ==
    {d.init_args : d \in agent_items} \cup {d.init_args : d \in wrapper_items}
        \cup {d.init_args : d \in client_items}

\* C1: a log_* call on a logger that was never started, or was stopped and not
\* started again, returns normally, attempts no write and leaves the four
\* collections as they were.
C1_StoppedLogIsNoOp ==
    (last.op \in LogOps /\ Stopped(last.logger))
        => (last.outcome = "returned" /\ last.writes = 0 /\ ~last.changed)
\* C1 witness: a logger that stored a wrapper record was stopped and
\* log_new_wrapper was called on it again.
C1_Witness ==
    /\ last.op = "log_new_wrapper"
    /\ lifecycle[last.logger] = "stopped"
    /\ wrapper_items # {}

\* C2 as claimed: a start() whose provisioning fails returns a session id
\* without raising, and every later log_* call on that logger writes nothing.
C2_DegradedLogsNothing ==
    /\ (last.op = "start" /\ last.fault \in ProvisionFaults)
          => (last.outcome = "returned" /\ last.ret # NoSession)
    /\ (last.op \in LogOps /\ Degraded(last.logger))
          => (last.outcome = "returned" /\ last.writes = 0 /\ ~last.changed)

\* C3: a start() whose connection fails raises ConnectionError, returns no
\* session id and makes no provisioning call.
C3_ConnectionFailureRaises ==
    (last.op = "start" /\ last.fault = "connection")
        => (last.outcome = "ConnectionError" /\ last.ret = NoSession /\ last.prov = 0)
\* C3 witness: a start() call met a connection failure and raised.
C3_Witness ==
    /\ last.op = "start"
    /\ last.fault = "connection"
    /\ last.outcome = "ConnectionError"
    /\ session_id # NoSession

\* C4 as claimed: on a started logger a log_* call whose database write fails
\* returns normally after attempting the write exactly once.
C4_WriteFailureSwallowed ==
    (last.op \in LogOps /\ Started(last.logger) /\ last.fault # "none")
        => (last.outcome = "returned" /\ last.writes = 1)

\* C5 as claimed: after log_new_agent on a started logger the agents collection
\* holds exactly one record for that agent, carrying that call's data, and never
\* two records with one agent identifier.
C5_AgentUpsert ==
    /\ \A d1, d2 \in agent_items : d1.agent_id = d2.agent_id => d1 = d2
    /\ (last.op = "log_new_agent" /\ Started(last.logger) /\ last.fault = "none")
          => \E d \in agent_items :
                /\ d.init_args = dumps(to_dict(last.input, Exclude, {"agent"}), FALSE, 0)
                /\ \A e \in agent_items : e.agent_id = d.agent_id => e = d

\* C6: log_new_wrapper and log_new_client called with an identifier that is
\* already stored return normally and leave the stored record unchanged.
C6_InsertFirstWins ==
    (last.op \in {"log_new_wrapper", "log_new_client"} /\ last.existed)
        => (last.outcome = "returned" /\ ~last.changed)
\* C6 witness: a second log_new_wrapper call with other init_args met the
\* conflict and the stored record still carries the first call's init_args.
C6_Witness ==
    /\ last.op = "log_new_wrapper"
    /\ last.existed
    /\ last.fault = "none"
    /\ last.raised = "CosmosResourceExistsError"
    /\ \E d \in wrapper_items :
          d.init_args # dumps(to_dict(last.input, Exclude, {}), FALSE, 0)

\* C7: no init_args text stored in the agents, wrappers or clients collection
\* has self, __class__, api_key, organization, base_url or azure_endpoint
\* among its keys.
C7_NoExcludedKeysStored ==
    \A text \in StoredInitArgs :
        \A i \in DOMAIN KeysOfText(text) : KeysOfText(text)[i] \notin Exclude
\* C7 witness: a wrapper record was stored from init_args that carried api_key.
C7_Witness ==
    /\ last.op = "log_new_wrapper"
    /\ last.changed
    /\ HasKey(last.input, "api_key")
    /\ HasKey(last.input, "self")

\* C8: the response text log_chat_completion stores is {"response": null} for
\* an absent response, {"response": s} for a string s, and for a structured
\* response an object with exactly the response's own attribute names, nested
\* ones included, with no "response" wrapper.
C8_ResponsePayload ==
    (last.op = "log_chat_completion" /\ last.changed) =>
        LET payload == chat_items[Len(chat_items)].response
        IN CASE last.input.t = "null" ->
                  payload = <<"{", "\"", "response", "\"", ":", "null", "}">>
             [] last.input.t = "str" ->
                  payload = <<"{", "\"", "response", "\"", ":",
                              "\"", last.input.s, "\"", "}">>
             [] OTHER ->
                  /\ payload[1] = "{"
                  /\ KeysOfText(payload) = Names(last.input)
                  /\ KeysOfText(payload)[1] # "response"
\* C8 witness: a chat completion with a structured response was stored.
C8_Witness ==
    /\ last.op = "log_chat_completion"
    /\ last.changed
    /\ last.input.t = "obj"
    /\ Len(Names(last.input)) > 2

\* C9 as claimed: every document a logger stores carries the session id that
\* logger's most recent start() returned.
C9_OwnSessionStamped ==
    (last.op \in LogOps /\ last.changed) => last.stamped = returned[last.logger]

\* C10: a log_chat_completion, log_new_wrapper or log_new_client call that
\* passed its guard and finds the container attribute cleared when it writes
\* ends with AttributeError raised to its caller and stores nothing.
C10_ClearedHandleRaises ==
    \A t \in Threads :
        (/\ thr[t].pc = "done"
         /\ thr[t].op \in {"log_chat_completion", "log_new_wrapper", "log_new_client"}
         /\ thr[t].guard # None
         /\ thr[t].seen = None)
            => (thr[t].outcome = "AttributeError" /\ ~thr[t].wrote)
\* C10 witness: stop() ran between the guard and the write of a
\* log_chat_completion call, which then raised.
C10_Witness ==
    \E t \in Threads :
        /\ thr[t].pc = "done"
        /\ thr[t].op = "log_chat_completion"
        /\ thr[t].guard # None
        /\ thr[t].seen = None
        /\ thr[t].outcome = "AttributeError"
        /\ last.op = "stop"

====
